---- MODULE Spec2Model ----
(***************************************************************************)
(* Model of cargo-crev's dependency graph (cargo-crev/src/repo.rs):        *)
(* build_graph, which walks cargo's resolution result from the roots and   *)
(* fills a petgraph graph plus a PackageId -> NodeIndex map, and the       *)
(* queries of `impl Graph`, with the methods of Repo that lead to them:     *)
(* registry, which takes cargo's package cache lock, get_dependency_graph  *)
(* and for_every_non_local_dep_crate.                                      *)
(*                                                                         *)
(* A PackageId is a record [name, src]; the version is folded into the     *)
(* name.  petgraph's node storage is the sequence graph_nodes (a NodeIndex *)
(* is a position in it, counted from 1), its edge storage is the bag       *)
(* graph_edges of [source, target, weight] records (parallel edges keep    *)
(* their multiplicity, the order of insertion is dropped).                 *)
(***************************************************************************)
EXTENDS Integers, Sequences, FiniteSets, TLC

\* ------------------------------------------------------------------ bounds
MaxRoots == 2
MaxResolve == 2
MaxDeclared == 2
MaxReplace == 1
MaxInput == 5

\* ---------------------------------------------------------------- universe
Names == {"a", "b"}
Sources == {"reg", "alt"}
PkgIds == [name : Names, src : Sources]

A1 == [name |-> "a", src |-> "reg"]
A2 == [name |-> "a", src |-> "alt"]
B1 == [name |-> "b", src |-> "reg"]
B2 == [name |-> "b", src |-> "alt"]

\* cargo's dependency Kind; build_graph only copies dep.kind() onto the edge,
\* so Build, which it treats as the other two, is left out of the inputs
Kinds == {"Normal", "Development"}

NoPlatform == "no_platform"
Platforms == {NoPlatform, "windows"}

NoTarget == "no_target"
Targets == {NoTarget, "x86_64-unknown-linux-gnu", "x86_64-pc-windows-msvc"}

DepEntries == [pkg : PkgIds, name : Names, kind : Kinds, platform : Platforms]

\* the subsets of S with at most k elements
RECURSIVE SubsetsUpTo(_, _)
SubsetsUpTo(S, k) ==
    IF k = 0 THEN {{}}
    ELSE LET prev == SubsetsUpTo(S, k - 1)
         IN  prev \cup {t \cup {x} : t \in prev, x \in S}

\* the sequences over S of length 1..k
RECURSIVE SeqsUpTo(_, _)
SeqsUpTo(S, k) ==
    IF k = 0 THEN {}
    ELSE {<<x>> : x \in S}
         \cup {Append(s, x) : s \in SeqsUpTo(S, k - 1), x \in S}

\* ------------------------------------------------------------------- state
VARIABLES
    roots,          \* build_graph's `roots`, as the sequence the iterator yields
    target,         \* build_graph's `target` (NoTarget for None)
    resolve,        \* the Resolve: the set of <<pkg, raw dep>> pairs
    replacements,   \* the Resolve's replacement table: <<raw, replacement>> pairs
    declared,       \* the declared dependencies (Package::dependencies) of all packages
    graph_nodes,    \* graph.graph's nodes: the sequence of Node ids
    graph_edges,    \* graph.graph's edges: a bag of [source, target, weight]
    nodes,          \* graph.nodes: PackageId -> NodeIndex
    pending,        \* build_graph's work stack
    seed,           \* position of the `for root in roots` loop
    pkg_id,         \* the identity popped by `while let Some(pkg_id)`
    todo,           \* the raw deps of pkg_id the `for raw_dep_id` loop has yet to visit
    pc,             \* "start": no method of Repo called yet; "registry",
                    \* "add_sources": in Repo::registry; "our_resolve": our_resolve
                    \* is about to be called; "pkgs", "download", "returned": in
                    \* for_every_non_local_dep_crate;
                    \* build_graph at "seed", "loop", "deps"; "built": it returned
                    \* Ok(graph); "done": the caller holds the graph; "error": it
                    \* returned the Err; "panic": the index lookup failed
    failed,         \* the identity packages.get_one failed for, NoPkg while none has
    call,           \* the query in progress or last returned: [op, arg]
    ret,            \* the set the last completed get_all_pkg_ids or
                    \* get_recursive_dependencies_of returned
    ret_iter,       \* the bag of identities the iterator of the last completed
                    \* get_dependencies_of or get_reverse_dependencies_of yielded
    rpending,       \* get_recursive_dependencies_of's `pending`
    processed,      \* get_recursive_dependencies_of's `processed`
    diag,           \* identities the "No node for" diagnostic was printed for
    rpc,            \* "idle", or "run" inside get_recursive_dependencies_of's loop
    lock,           \* this process holds cargo's package cache lock
    method,         \* the method of Repo the caller called
    pkgs            \* for_every_non_local_dep_crate: the packages `for pkg in pkgs`
                    \* has yet to visit

inputs == <<roots, target, resolve, replacements, declared>>
graph == <<graph_nodes, graph_edges, nodes>>
build == <<pending, seed, pkg_id, todo, pc, failed>>
query == <<call, ret, ret_iter, rpending, processed, diag, rpc>>
repo == <<lock, method, pkgs>>
vars == <<inputs, graph, build, query, repo>>

NoPkg == [name |-> "none", src |-> "none"]
NoCall == [op |-> "none", arg |-> NoPkg]

\* ------------------------------------------------- cargo's side of the calls
\* get_cfgs: what `rustc --print=cfg [--target t]` reports; the host is a unix
GetCfgs(t) == IF t = "x86_64-pc-windows-msvc" THEN {"windows"} ELSE {"unix"}

\* Platform::matches(t, cfgs) for a cfg(..) platform
PlatformMatches(p, t, cfgs) == p \in cfgs

\* mutant: the declared entries are not matched against the raw dependency
MatchesAnyEntry(d, raw_dep_id) == TRUE

\* Dependency::matches_ignoring_source(raw_dep_id)
MatchesIgnoringSource(d, raw_dep_id) == d.name = raw_dep_id.name

\* Resolve::deps_not_replaced(pkg)
DepsNotReplaced(p) == {e[2] : e \in {r \in resolve : r[1] = p}}

\* Resolve::replacement(raw_dep_id), NoPkg for None
Replacement(raw_dep_id) ==
    IF \E r \in replacements : r[1] = raw_dep_id
    THEN (CHOOSE r \in replacements : r[1] = raw_dep_id)[2]
    ELSE NoPkg

\* Package::dependencies() of pkg
Dependencies(p) == {d \in declared : d.pkg = p}

\* --------------------------------------------------------------- build_graph
\* mutant: the predicate is evaluated also when no target is given
AdmittedIgnoresTarget(d) ==
    IF d.platform = NoPlatform THEN TRUE
    ELSE PlatformMatches(d.platform, target, GetCfgs(target))

\* the platform filter of the second .filter(..)
Admitted(d) ==
    IF d.platform = NoPlatform THEN TRUE
    ELSE IF target = NoTarget THEN TRUE
    ELSE PlatformMatches(d.platform, target, GetCfgs(target))

\* `it`: the declared entries of pkg that match raw_dep_id and pass the filter
AdmittedEntries(p, raw_dep_id) ==
    {d \in Dependencies(p) : MatchesIgnoringSource(d, raw_dep_id) /\ Admitted(d)}

\* mutant: the replacement is not consulted
DepIdIgnoresReplacement(raw_dep_id) == raw_dep_id

\* dep_id: the replacement of raw_dep_id if there is one
DepId(raw_dep_id) ==
    IF Replacement(raw_dep_id) # NoPkg THEN Replacement(raw_dep_id) ELSE raw_dep_id

\* mutant: an edge equal to one already in the graph is not added again
AddEdgeCollapsing(es, e) ==
    IF e \in DOMAIN es THEN es ELSE es @@ (e :> 1)

\* graph.graph.add_edge, on the bag of edges
AddEdge(es, e) ==
    IF e \in DOMAIN es THEN [es EXCEPT ![e] = @ + 1] ELSE es @@ (e :> 1)

\* mutant: the edge is added from the dependency to the package
RECURSIVE AddEdgesReversed(_, _, _, _)
AddEdgesReversed(es, idx, dep_idx, it) ==
    IF it = {} THEN es
    ELSE LET dep == CHOOSE d \in it : TRUE
         IN  AddEdgesReversed(AddEdge(es, [source |-> dep_idx, target |-> idx, weight |-> dep.kind]),
                              idx, dep_idx, it \ {dep})

\* one add_edge(idx, dep_idx, dep.kind()) per entry of `it`
RECURSIVE AddEdges(_, _, _, _)
AddEdges(es, idx, dep_idx, it) ==
    IF it = {} THEN es
    ELSE LET dep == CHOOSE d \in it : TRUE
         IN  AddEdges(AddEdge(es, [source |-> idx, target |-> dep_idx, weight |-> dep.kind]),
                      idx, dep_idx, it \ {dep})

\* graph.nodes.insert(id, graph.graph.add_node(node))
InsertNode(id) ==
    /\ graph_nodes' = Append(graph_nodes, id)
    /\ nodes' = [x \in DOMAIN nodes \cup {id} |->
                    IF x = id THEN Len(graph_nodes) + 1 ELSE nodes[x]]

\* the replacement pairs cargo accepts: same name, another source
ReplacePairs == {r \in PkgIds \X PkgIds : r[1].name = r[2].name /\ r[1] # r[2]}

\* the declared entries that can match a resolved dependency of their package
Matchable(res) ==
    {d \in DepEntries : \E r \in res : r[1] = d.pkg /\ MatchesIgnoringSource(d, r[2])}

\* the resolutions build_graph can read: it reads the pairs of an identity only
\* when it pops it, so every pair starts at a root or at the effective identity
\* another pair ends at
Readable(rts, rep, res) ==
    \A r \in res :
        \/ \E i \in 1..Len(rts) : rts[i] = r[1]
        \/ \E q \in res :
             /\ q # r
             /\ \/ <<q[2], r[1]>> \in rep
                \/ q[2] = r[1] /\ ~ \E x \in rep : x[1] = q[2]

Min(a, b) == IF a < b THEN a ELSE b

Init ==
    /\ roots = <<>>
    /\ target \in Targets
    /\ resolve = {}
    /\ replacements = {}
    /\ declared = {}
    /\ graph_nodes = <<>>
    /\ graph_edges = << >>
    /\ nodes = << >>
    /\ pending = <<>>
    /\ seed = 1
    /\ pkg_id = NoPkg
    /\ todo = {}
    /\ pc = "start"
    /\ failed = NoPkg
    /\ call = NoCall
    /\ ret = {}
    /\ ret_iter = << >>
    /\ rpending = {}
    /\ processed = {}
    /\ diag = {}
    /\ rpc = "idle"
    /\ lock = FALSE
    /\ method = "none"
    /\ pkgs = {}

\* ---------------------------------------------------------------------- Repo
\* a caller's repo.get_dependency_graph(roots), up to the call of registry()
GetDependencyGraph ==
    /\ pc = "start"
    /\ roots' \in {s \in SeqsUpTo(PkgIds, MaxRoots) : s[1] = A1}
    /\ method' = "get_dependency_graph"
    /\ pc' = "registry"
    /\ UNCHANGED <<target, resolve, replacements, declared, graph, pending, seed,
                   pkg_id, todo, failed, query, lock, pkgs>>

\* a caller's repo.for_every_non_local_dep_crate(f), up to the call of registry()
ForEveryNonLocalDepCrate ==
    /\ pc = "start"
    /\ method' = "for_every_non_local_dep_crate"
    /\ pc' = "registry"
    /\ UNCHANGED <<inputs, graph, pending, seed, pkg_id, todo, failed, query, lock, pkgs>>

\* Repo::registry: let _lock = self.config.acquire_package_cache_lock()?
RegistryAcquire ==
    /\ pc = "registry"
    /\ lock' = TRUE
    /\ pc' = "add_sources"
    /\ UNCHANGED <<inputs, graph, pending, seed, pkg_id, todo, failed, query, method, pkgs>>

\* Repo::registry: PackageRegistry::new, add_sources, Ok(registry); _lock goes
\* out of scope when the function returns
RegistryReturn ==
    /\ pc = "add_sources"
    /\ lock' = FALSE
    /\ pc' = "our_resolve"
    /\ UNCHANGED <<inputs, graph, pending, seed, pkg_id, todo, failed, query, method, pkgs>>

\* Repo::registry: PackageRegistry::new or add_sources returns the error
RegistryFail ==
    /\ pc = "add_sources"
    /\ lock' = FALSE
    /\ pc' = "error"
    /\ UNCHANGED <<inputs, graph, pending, seed, pkg_id, todo, failed, query, method, pkgs>>

\* get_dependency_graph: our_resolve returns the package set and the
\* resolution, get_cfgs the cfgs of the target; build_graph is entered
OurResolve ==
    /\ pc = "our_resolve"
    /\ method = "get_dependency_graph"
    /\ replacements' \in
         {s \in SubsetsUpTo(ReplacePairs, Min(MaxReplace, MaxInput - Len(roots))) :
            \A r1, r2 \in s : r1[1] = r2[1] => r1 = r2}
    /\ resolve' \in
         {res \in SubsetsUpTo(PkgIds \X PkgIds,
                              Min(MaxResolve,
                                  MaxInput - Len(roots) - Cardinality(replacements'))) :
            Readable(roots, replacements', res)}
    /\ declared' \in
         SubsetsUpTo(Matchable(resolve'),
                     Min(MaxDeclared, MaxInput - Len(roots) - Cardinality(resolve')
                                        - Cardinality(replacements')))
    /\ pc' = "seed"
    /\ UNCHANGED <<roots, target, graph, pending, seed, pkg_id, todo, failed, query, repo>>

\* our_resolve returns the error of the resolver
OurResolveFail ==
    /\ pc = "our_resolve"
    /\ pc' = "error"
    /\ UNCHANGED <<inputs, graph, pending, seed, pkg_id, todo, failed, query, repo>>

\* SourceId::is_registry
IsRegistry(id) == id.src = "reg"

\* for_every_non_local_dep_crate: our_resolve returns the package set,
\* load_source and get_many succeed
OurResolveForEvery ==
    /\ pc = "our_resolve"
    /\ method = "for_every_non_local_dep_crate"
    /\ pkgs' \in SUBSET PkgIds
    /\ pc' = "pkgs"
    /\ UNCHANGED <<inputs, graph, pending, seed, pkg_id, todo, failed, query, lock, method>>

\* one round of `for pkg in pkgs`: a package that is not of a registry is
\* skipped, one whose root exists is handed to f, for the others
\* source.download is about to be called
ForEveryVisit ==
    /\ pc = "pkgs"
    /\ \E pkg \in pkgs :
         /\ pkgs' = pkgs \ {pkg}
         /\ \E root_exists \in BOOLEAN :
              pc' = IF IsRegistry(pkg) /\ ~ root_exists THEN "download" ELSE "pkgs"
    /\ UNCHANGED <<inputs, graph, pending, seed, pkg_id, todo, failed, query, lock, method>>

\* source.download(pkg.package_id())? and f(&pkg)? succeed
Download ==
    /\ pc = "download"
    /\ pc' = "pkgs"
    /\ UNCHANGED <<inputs, graph, pending, seed, pkg_id, todo, failed, query, repo>>

\* source.download(..)? or f(&pkg)? returns the error
ForEveryFail ==
    /\ \/ pc = "download"
       \/ pc = "pkgs" /\ \E pkg \in pkgs : IsRegistry(pkg)
    /\ pc' = "error"
    /\ UNCHANGED <<inputs, graph, pending, seed, pkg_id, todo, failed, query, repo>>

\* the loop is over: Ok(())
ForEveryReturn ==
    /\ pc = "pkgs"
    /\ pkgs = {}
    /\ pc' = "returned"
    /\ UNCHANGED <<inputs, graph, pending, seed, pkg_id, todo, failed, query, repo>>

\* ------------------------------------------------------ build_graph: the loops
\* mutant: the failed lookup is skipped and the loop goes on
SkipFailure == "loop"

\* the `?` on packages.get_one(..): the error ends build_graph
Propagate == "error"

\* the Err of the failed lookup of id goes up through build_graph and
\* get_dependency_graph: the graph under construction, the work stack, the
\* resolution and the package set are dropped with their frames
ErrReturn(id) ==
    /\ failed' = id
    /\ pc' = Propagate
    /\ target' = NoTarget
    /\ resolve' = {}
    /\ replacements' = {}
    /\ declared' = {}
    /\ graph_nodes' = <<>>
    /\ graph_edges' = << >>
    /\ nodes' = << >>
    /\ pending' = <<>>
    /\ seed' = 1
    /\ pkg_id' = NoPkg
    /\ todo' = {}
    /\ UNCHANGED <<roots, repo, query>>

\* for root in roots: packages.get_one(root) succeeds
SeedRoot ==
    /\ pc = "seed"
    /\ seed <= Len(roots)
    /\ InsertNode(roots[seed])
    /\ pending' = Append(pending, roots[seed])
    /\ seed' = seed + 1
    /\ pc' = IF seed = Len(roots) THEN "loop" ELSE "seed"
    /\ UNCHANGED <<inputs, repo, graph_edges, pkg_id, todo, failed, query>>

\* for root in roots: packages.get_one(root)? returns the error
SeedRootFail ==
    /\ pc = "seed"
    /\ seed <= Len(roots)
    /\ ErrReturn(roots[seed])

\* mutant: the identity is read with pending.last() and stays on the work stack
PopPeeks ==
    /\ pc = "loop"
    /\ pending # <<>>
    /\ LET p == pending[Len(pending)]
       IN  /\ pending' = pending
           /\ pkg_id' = p
           /\ IF p \notin DOMAIN nodes
              THEN pc' = "panic" /\ todo' = {}
              ELSE /\ todo' = DepsNotReplaced(p)
                   /\ pc' = IF DepsNotReplaced(p) = {} THEN "loop" ELSE "deps"
    /\ UNCHANGED <<inputs, repo, graph, seed, failed, query>>

\* while let Some(pkg_id) = pending.pop(): the index lookup and get_one succeed
Pop ==
    /\ pc = "loop"
    /\ pending # <<>>
    /\ LET p == pending[Len(pending)]
       IN  /\ pending' = SubSeq(pending, 1, Len(pending) - 1)
           /\ pkg_id' = p
           /\ IF p \notin DOMAIN nodes
              THEN pc' = "panic" /\ todo' = {}
              ELSE /\ todo' = DepsNotReplaced(p)
                   /\ pc' = IF DepsNotReplaced(p) = {} THEN "loop" ELSE "deps"
    /\ UNCHANGED <<inputs, repo, graph, seed, failed, query>>

\* while let Some(pkg_id) = pending.pop(): packages.get_one(pkg_id)? returns the error
PopFail ==
    /\ pc = "loop"
    /\ pending # <<>>
    /\ LET p == pending[Len(pending)]
       IN  IF p \notin DOMAIN nodes
           THEN /\ pending' = SubSeq(pending, 1, Len(pending) - 1)
                /\ pkg_id' = p
                /\ pc' = "panic"
                /\ UNCHANGED <<inputs, repo, graph, seed, todo, failed, query>>
           ELSE ErrReturn(p)

\* mutant: the node of dep_id is made before the declared entries are looked
\* at, also when none is admitted
VisitDepMaterializesFirst ==
    /\ pc = "deps"
    /\ \E raw_dep_id \in todo :
         LET it == AdmittedEntries(pkg_id, raw_dep_id)
             dep_id == DepId(raw_dep_id)
             idx == nodes[pkg_id]
         IN  /\ todo' = todo \ {raw_dep_id}
             /\ pc' = IF todo \ {raw_dep_id} = {} THEN "loop" ELSE "deps"
             /\ IF dep_id \in DOMAIN nodes
                THEN /\ graph_edges' = AddEdges(graph_edges, idx, nodes[dep_id], it)
                     /\ UNCHANGED <<graph_nodes, nodes, pending>>
                ELSE /\ pending' = Append(pending, dep_id)
                     /\ InsertNode(dep_id)
                     /\ graph_edges' =
                          AddEdges(graph_edges, idx, Len(graph_nodes) + 1, it)
    /\ UNCHANGED <<inputs, repo, seed, pkg_id, failed, query>>

\* mutant: no edge is added to a dependency that has a node already
VisitDepSkipsOccupied ==
    /\ pc = "deps"
    /\ \E raw_dep_id \in todo :
         LET it == AdmittedEntries(pkg_id, raw_dep_id)
             dep_id == DepId(raw_dep_id)
             idx == nodes[pkg_id]
         IN  /\ todo' = todo \ {raw_dep_id}
             /\ pc' = IF todo \ {raw_dep_id} = {} THEN "loop" ELSE "deps"
             /\ IF it = {} \/ dep_id \in DOMAIN nodes
                THEN UNCHANGED <<graph, pending>>
                ELSE /\ pending' = Append(pending, dep_id)
                     /\ InsertNode(dep_id)
                     /\ graph_edges' =
                          AddEdges(graph_edges, idx, Len(graph_nodes) + 1, it)
    /\ UNCHANGED <<inputs, repo, seed, pkg_id, failed, query>>

\* mutant: the raw identity is pushed onto the work stack, not its replacement
VisitDepPushesRaw ==
    /\ pc = "deps"
    /\ \E raw_dep_id \in todo :
         LET it == AdmittedEntries(pkg_id, raw_dep_id)
             dep_id == DepId(raw_dep_id)
             idx == nodes[pkg_id]
         IN  /\ todo' = todo \ {raw_dep_id}
             /\ pc' = IF todo \ {raw_dep_id} = {} THEN "loop" ELSE "deps"
             /\ IF it = {}
                THEN UNCHANGED <<graph, pending>>
                ELSE IF dep_id \in DOMAIN nodes
                THEN /\ graph_edges' = AddEdges(graph_edges, idx, nodes[dep_id], it)
                     /\ UNCHANGED <<graph_nodes, nodes, pending>>
                ELSE /\ pending' = Append(pending, raw_dep_id)
                     /\ InsertNode(dep_id)
                     /\ graph_edges' =
                          AddEdges(graph_edges, idx, Len(graph_nodes) + 1, it)
    /\ UNCHANGED <<inputs, repo, seed, pkg_id, failed, query>>

\* mutant: a node is added for dep_id also when it has one already
VisitDepAlwaysAddsNode ==
    /\ pc = "deps"
    /\ \E raw_dep_id \in todo :
         LET it == AdmittedEntries(pkg_id, raw_dep_id)
             dep_id == DepId(raw_dep_id)
             idx == nodes[pkg_id]
         IN  /\ todo' = todo \ {raw_dep_id}
             /\ pc' = IF todo \ {raw_dep_id} = {} THEN "loop" ELSE "deps"
             /\ IF it = {}
                THEN UNCHANGED <<graph, pending>>
                ELSE /\ pending' = IF dep_id \in DOMAIN nodes
                                   THEN pending ELSE Append(pending, dep_id)
                     /\ InsertNode(dep_id)
                     /\ graph_edges' =
                          AddEdges(graph_edges, idx, Len(graph_nodes) + 1, it)
    /\ UNCHANGED <<inputs, repo, seed, pkg_id, failed, query>>

\* one round of `for raw_dep_id in resolve.deps_not_replaced(pkg_id)`, with the
\* whole `for dep in it` loop; the order of the raw deps is the resolver's
VisitDep ==
    /\ pc = "deps"
    /\ \E raw_dep_id \in todo :
         LET it == AdmittedEntries(pkg_id, raw_dep_id)
             dep_id == DepId(raw_dep_id)
             idx == nodes[pkg_id]
         IN  /\ todo' = todo \ {raw_dep_id}
             /\ pc' = IF todo \ {raw_dep_id} = {} THEN "loop" ELSE "deps"
             /\ IF it = {}
                THEN UNCHANGED <<graph, pending>>
                ELSE IF dep_id \in DOMAIN nodes
                THEN /\ graph_edges' = AddEdges(graph_edges, idx, nodes[dep_id], it)
                     /\ UNCHANGED <<graph_nodes, nodes, pending>>
                ELSE /\ pending' = Append(pending, dep_id)
                     /\ InsertNode(dep_id)
                     /\ graph_edges' =
                          AddEdges(graph_edges, idx, Len(graph_nodes) + 1, it)
    /\ UNCHANGED <<inputs, repo, seed, pkg_id, failed, query>>

\* mutant: the failed lookup of dep_id is skipped: dep_id stays on the work
\* stack without a node and the loop goes on
VisitDepFailSkips ==
    /\ pc = "deps"
    /\ \E raw_dep_id \in todo :
         /\ AdmittedEntries(pkg_id, raw_dep_id) # {}
         /\ DepId(raw_dep_id) \notin DOMAIN nodes
         /\ pending' = Append(pending, DepId(raw_dep_id))
         /\ todo' = todo \ {raw_dep_id}
         /\ pc' = IF todo \ {raw_dep_id} = {} THEN "loop" ELSE "deps"
    /\ UNCHANGED <<inputs, repo, graph, seed, pkg_id, failed, query>>

\* Entry::Vacant: dep_id is pushed, then packages.get_one(dep_id)? returns the error
VisitDepFail ==
    /\ pc = "deps"
    /\ \E raw_dep_id \in todo :
         /\ AdmittedEntries(pkg_id, raw_dep_id) # {}
         /\ DepId(raw_dep_id) \notin DOMAIN nodes
         /\ ErrReturn(DepId(raw_dep_id))

\* the work stack is empty: Ok(graph)
Finish ==
    /\ pc = "loop"
    /\ pending = <<>>
    /\ pc' = "built"
    /\ UNCHANGED <<inputs, repo, graph, pending, seed, pkg_id, todo, failed, query>>

\* get_dependency_graph returns the graph: its locals (the resolution, the
\* package set, the target) and build_graph's go out of scope, the caller
\* keeps the graph and knows the roots it asked for
ReturnGraph ==
    /\ pc = "built"
    /\ pc' = "done"
    /\ target' = NoTarget
    /\ resolve' = {}
    /\ replacements' = {}
    /\ declared' = {}
    /\ pkg_id' = NoPkg
    /\ UNCHANGED <<roots, repo, graph, pending, seed, todo, failed, query>>

\* ---------------------------------------------------------------- impl Graph
\* the sum of f over the set S
RECURSIVE SumOver(_, _)
SumOver(f, S) ==
    IF S = {} THEN 0
    ELSE LET x == CHOOSE y \in S : TRUE IN f[x] + SumOver(f, S \ {x})

Outgoing == "Outgoing"
Incoming == "Incoming"

\* the edges petgraph walks for neighbors_directed(idx, dir)
EdgesDirected(idx, dir) ==
    {e \in DOMAIN graph_edges : IF dir = Outgoing THEN e.source = idx ELSE e.target = idx}

\* the node at the other end of an edge walked in direction dir
OtherEnd(e, dir) == IF dir = Outgoing THEN e.target ELSE e.source

\* self.graph.neighbors_directed(idx, dir).map(|n| node_weight(n).unwrap().id):
\* the bag of identities, one copy per edge
NeighborIds(idx, dir) ==
    LET es == EdgesDirected(idx, dir)
        ids == {graph_nodes[OtherEnd(e, dir)] : e \in es}
    IN  [d \in ids |->
            SumOver(graph_edges, {e \in es : graph_nodes[OtherEnd(e, dir)] = d})]

\* mutant: the identities are collected from the ends of the edges
GetAllPkgIdsFromEdges ==
    {graph_nodes[e.source] : e \in DOMAIN graph_edges}
        \cup {graph_nodes[e.target] : e \in DOMAIN graph_edges}

\* Graph::get_all_pkg_ids
GetAllPkgIds == DOMAIN nodes

\* mutant: a missing identity falls back to the default NodeIndex
GetDependenciesOfDefaultIndex(id) ==
    NeighborIds(IF id \in DOMAIN nodes THEN nodes[id] ELSE 1, Outgoing)

\* Graph::get_dependencies_of: a bag of identities, empty without a node
GetDependenciesOf(id) ==
    IF id \in DOMAIN nodes THEN NeighborIds(nodes[id], Outgoing) ELSE << >>

\* mutant: the reverse query walks the outgoing edges
GetReverseDependenciesOfOutgoing(id) ==
    IF id \in DOMAIN nodes THEN NeighborIds(nodes[id], Outgoing) ELSE << >>

\* Graph::get_reverse_dependencies_of
GetReverseDependenciesOf(id) ==
    IF id \in DOMAIN nodes THEN NeighborIds(nodes[id], Incoming) ELSE << >>

\* the derived Ord of PackageId: by name, then by source
Rank(id) == (IF id.name = "a" THEN 0 ELSE 2) + (IF id.src = "alt" THEN 0 ELSE 1)

\* pending.iter().next(): the least identity of the BTreeSet
First(S) == CHOOSE x \in S : \A y \in S : Rank(x) <= Rank(y)

\* mutant: the closure follows the incoming edges
ExpandIncoming(p) == DOMAIN NeighborIds(nodes[p], Incoming)

\* the identities one round of the loop inserts into pending for pkg
Expand(p) == DOMAIN NeighborIds(nodes[p], Outgoing)

\* mutant: the root is not removed from the result
RecResultKeepsRoot(done, root_pkg_id) == done

\* processed.remove(&root_pkg_id); processed
RecResult(done, root_pkg_id) == done \ {root_pkg_id}

\* a caller's get_all_pkg_ids() on the graph it holds
CallGetAllPkgIds ==
    /\ pc = "done" /\ call = NoCall
    /\ call' = [op |-> "get_all_pkg_ids", arg |-> NoPkg]
    /\ ret' = GetAllPkgIds
    /\ ret_iter' = << >>
    /\ diag' = {}
    /\ UNCHANGED <<inputs, repo, graph, build, rpending, processed, rpc>>

\* mutant: the lookup inserts a node for an identity that has none
CallGetDependenciesOfInserts ==
    /\ pc = "done" /\ call = NoCall
    /\ \E id \in PkgIds :
         /\ call' = [op |-> "get_dependencies_of", arg |-> id]
         /\ ret_iter' = GetDependenciesOf(id)
         /\ IF id \in DOMAIN nodes
            THEN UNCHANGED graph
            ELSE InsertNode(id) /\ UNCHANGED graph_edges
    /\ ret' = {}
    /\ diag' = {}
    /\ UNCHANGED <<inputs, repo, build, rpending, processed, rpc>>

\* a caller's get_dependencies_of(id), the iterator run to its end
CallGetDependenciesOf ==
    /\ pc = "done" /\ call = NoCall
    /\ \E id \in PkgIds :
         /\ call' = [op |-> "get_dependencies_of", arg |-> id]
         /\ ret_iter' = GetDependenciesOf(id)
    /\ ret' = {}
    /\ diag' = {}
    /\ UNCHANGED <<inputs, repo, graph, build, rpending, processed, rpc>>

\* a caller's get_reverse_dependencies_of(id), the iterator run to its end
CallGetReverseDependenciesOf ==
    /\ pc = "done" /\ call = NoCall
    /\ \E id \in PkgIds :
         /\ call' = [op |-> "get_reverse_dependencies_of", arg |-> id]
         /\ ret_iter' = GetReverseDependenciesOf(id)
    /\ ret' = {}
    /\ diag' = {}
    /\ UNCHANGED <<inputs, repo, graph, build, rpending, processed, rpc>>

\* get_recursive_dependencies_of(root_pkg_id): pending.insert(root_pkg_id)
RecBegin ==
    /\ pc = "done" /\ call = NoCall
    /\ \E root_pkg_id \in PkgIds :
         /\ call' = [op |-> "get_recursive_dependencies_of", arg |-> root_pkg_id]
         /\ rpending' = {root_pkg_id}
    /\ processed' = {}
    /\ diag' = {}
    /\ ret' = {}
    /\ ret_iter' = << >>
    /\ rpc' = "run"
    /\ UNCHANGED <<inputs, repo, graph, build>>

\* mutant: the node lookup is unwrapped, an identity without a node aborts
RecStepUnwrap ==
    /\ rpc = "run"
    /\ rpending # {}
    /\ LET p == First(rpending)
       IN  /\ rpending' = (rpending \ {p})
                             \cup (IF p \in processed \/ p \notin DOMAIN nodes
                                   THEN {} ELSE Expand(p))
           /\ processed' = processed \cup {p}
           /\ rpc' = IF p \notin processed /\ p \notin DOMAIN nodes THEN "abort" ELSE rpc
    /\ UNCHANGED <<inputs, repo, graph, build, call, ret, ret_iter, diag>>

\* mutant: an identity is expanded again each time it is taken from pending
RecStepRevisits ==
    /\ rpc = "run"
    /\ rpending # {}
    /\ LET p == First(rpending)
       IN  /\ processed' = processed \cup {p}
           /\ IF p \in DOMAIN nodes
              THEN /\ rpending' = (rpending \ {p}) \cup Expand(p)
                   /\ UNCHANGED diag
              ELSE /\ rpending' = rpending \ {p}
                   /\ diag' = diag \cup {p}
    /\ UNCHANGED <<inputs, repo, graph, build, call, ret, ret_iter, rpc>>

\* mutant: an identity already processed ends the loop instead of being skipped
RecStepBreaks ==
    /\ rpc = "run"
    /\ rpending # {}
    /\ LET p == First(rpending)
       IN  IF p \in processed
           THEN /\ rpending' = {}
                /\ UNCHANGED <<processed, diag>>
           ELSE /\ processed' = processed \cup {p}
                /\ IF p \in DOMAIN nodes
                   THEN /\ rpending' = (rpending \ {p}) \cup Expand(p)
                        /\ UNCHANGED diag
                   ELSE /\ rpending' = rpending \ {p}
                        /\ diag' = diag \cup {p}
    /\ UNCHANGED <<inputs, repo, graph, build, call, ret, ret_iter, rpc>>

\* mutant: the identity taken is not recorded in processed
RecStepForgetsProcessed ==
    /\ rpc = "run"
    /\ rpending # {}
    /\ LET p == First(rpending)
       IN  IF p \in processed
           THEN /\ rpending' = rpending \ {p}
                /\ UNCHANGED <<processed, diag>>
           ELSE /\ processed' = processed
                /\ IF p \in DOMAIN nodes
                   THEN /\ rpending' = (rpending \ {p}) \cup Expand(p)
                        /\ UNCHANGED diag
                   ELSE /\ rpending' = rpending \ {p}
                        /\ diag' = diag \cup {p}
    /\ UNCHANGED <<inputs, repo, graph, build, call, ret, ret_iter, rpc>>

\* one round of `while let Some(pkg_id) = pending.iter().next().cloned()`
RecStep ==
    /\ rpc = "run"
    /\ rpending # {}
    /\ LET p == First(rpending)
       IN  IF p \in processed
           THEN /\ rpending' = rpending \ {p}
                /\ UNCHANGED <<processed, diag>>
           ELSE /\ processed' = processed \cup {p}
                /\ IF p \in DOMAIN nodes
                   THEN /\ rpending' = (rpending \ {p}) \cup Expand(p)
                        /\ UNCHANGED diag
                   ELSE /\ rpending' = rpending \ {p}
                        /\ diag' = diag \cup {p}
    /\ UNCHANGED <<inputs, repo, graph, build, call, ret, ret_iter, rpc>>

\* pending is empty: processed.remove(&root_pkg_id); processed
RecReturn ==
    /\ rpc = "run"
    /\ rpending = {}
    /\ ret' = RecResult(processed, call.arg)
    /\ processed' = {}
    /\ rpc' = "idle"
    /\ UNCHANGED <<inputs, repo, graph, build, call, ret_iter, rpending, diag>>

\* the caller drops the value a query returned; the graph stays with it
Drop ==
    /\ call # NoCall
    /\ rpc = "idle"
    /\ call' = NoCall
    /\ ret' = {}
    /\ ret_iter' = << >>
    /\ diag' = {}
    /\ UNCHANGED <<inputs, repo, graph, build, rpending, processed, rpc>>

Next ==
    \/ GetDependencyGraph
    \/ ForEveryNonLocalDepCrate
    \/ RegistryAcquire
    \/ RegistryReturn
    \/ RegistryFail
    \/ OurResolve
    \/ OurResolveFail
    \/ OurResolveForEvery
    \/ ForEveryVisit
    \/ Download
    \/ ForEveryFail
    \/ ForEveryReturn
    \/ SeedRoot
    \/ SeedRootFail
    \/ Pop
    \/ PopFail
    \/ VisitDep
    \/ VisitDepFail
    \/ Finish
    \/ ReturnGraph
    \/ CallGetAllPkgIds
    \/ CallGetDependenciesOf
    \/ CallGetReverseDependenciesOf
    \/ RecBegin
    \/ RecStep
    \/ RecReturn
    \/ Drop

Spec == Init /\ [][Next]_vars

\* the loop of get_recursive_dependencies_of runs on while it can: a call is
\* one sequential run of the function
LiveSpec == Spec /\ WF_vars(RecStep) /\ WF_vars(RecReturn)

\* one step of build_graph
BuildStep ==
    \/ SeedRoot
    \/ SeedRootFail
    \/ Pop
    \/ PopFail
    \/ VisitDep
    \/ VisitDepFail
    \/ Finish

\* ------------------------------------------------------------------ claims
\* the pairs <<p, d>> of identities joined by an edge p -> d
EdgeIds == {<<graph_nodes[e.source], graph_nodes[e.target]>> : e \in DOMAIN graph_edges}

\* the identities an edge leads to from an identity of S
Successors(S) == {e[2] : e \in {x \in EdgeIds : x[1] \in S}}

RECURSIVE Closure(_)
Closure(S) == IF Successors(S) \subseteq S THEN S ELSE Closure(S \cup Successors(S))

\* the identities reachable from root by one or more edges
ReachableFrom(root) == Closure(Successors({root}))

\* get_recursive_dependencies_of(call.arg) has returned ret
RecReturned == call.op = "get_recursive_dependencies_of" /\ rpc = "idle"

\* C1: get_recursive_dependencies_of(root) returns exactly the identities
\* reachable from root by one or more outgoing edges, without root itself
C1_RecursiveDepsAreTheReachableSet ==
    RecReturned => ret = ReachableFrom(call.arg) \ {call.arg}

\* a call whose result holds an identity that is no direct dependency of root
C1_Witness ==
    /\ RecReturned
    /\ Cardinality(ret) >= 2
    /\ \E d \in ret : d \notin DOMAIN GetDependenciesOf(call.arg)

\* C2: the result of get_recursive_dependencies_of(root) never contains root,
\* also when a cycle or a self-edge leads back to root
C2_RootNotInRecursiveDeps == RecReturned => call.arg \notin ret

\* a call on a root that a cycle leads back to, through another identity
C2_Witness ==
    /\ RecReturned
    /\ call.arg \in ReachableFrom(call.arg)
    /\ ret # {}

\* C3: every identity d returned by get_dependencies_of(p) has p among
\* get_reverse_dependencies_of(d)
C3_EdgeSymmetry ==
    call.op = "get_dependencies_of" =>
        \A d \in DOMAIN ret_iter : call.arg \in DOMAIN GetReverseDependenciesOf(d)

\* get_dependencies_of(p) returned another identity than p
C3_Witness ==
    /\ call.op = "get_dependencies_of"
    /\ \E d \in DOMAIN ret_iter : d # call.arg

\* C4: every root given to build_graph is among get_all_pkg_ids of the graph
\* it returns
C4_RootsAreNodes ==
    call.op = "get_all_pkg_ids" => \A i \in 1..Len(roots) : roots[i] \in ret

\* a root without dependencies that no package depends on
C4_Witness ==
    /\ call.op = "get_all_pkg_ids"
    /\ \E i \in 1..Len(roots) :
         /\ DOMAIN GetDependenciesOf(roots[i]) = {}
         /\ DOMAIN GetReverseDependenciesOf(roots[i]) = {}
         /\ roots[i] \in ret
\* the identity a raw dependency stands for: its replacement if one is
\* registered, itself otherwise
Effective(raw) ==
    IF \E r \in replacements : r[1] = raw
    THEN (CHOOSE r \in replacements : r[1] = raw)[2]
    ELSE raw

\* the graph has an edge p -> d of kind k
HasEdge(p, d, k) ==
    \E e \in DOMAIN graph_edges :
        /\ graph_nodes[e.source] = p
        /\ graph_nodes[e.target] = d
        /\ e.weight = k

\* the declared entries of p whose name is that of raw
EntriesFor(p, raw) == {d \in declared : d.pkg = p /\ d.name = raw.name}

\* the platform filter as the specification states it
SpecAdmits(d) ==
    \/ d.platform = NoPlatform
    \/ target = NoTarget
    \/ d.platform \in GetCfgs(target)

C6_PlatformAdmission ==
    pc = "built" =>
        \A p \in DOMAIN nodes :
            \A raw \in {r[2] : r \in {x \in resolve : x[1] = p}} :
                /\ \A k \in Kinds :
                     HasEdge(p, Effective(raw), k) <=>
                         \E raw2 \in {r[2] : r \in {x \in resolve : x[1] = p}} :
                             /\ Effective(raw2) = Effective(raw)
                             /\ \E d \in EntriesFor(p, raw2) : d.kind = k /\ SpecAdmits(d)
                /\ ( /\ target # NoTarget
                     /\ \A d \in EntriesFor(p, raw) :
                          d.platform # NoPlatform /\ d.platform \notin GetCfgs(target) )
                   => \A k \in Kinds : ~ HasEdge(p, Effective(raw), k)
                /\ target = NoTarget
                   => \A d \in EntriesFor(p, raw) : HasEdge(p, Effective(raw), d.kind)

\* a built graph for a target, of a package with an entry whose predicate is
\* false for it, which gave no edge, beside an entry that gave one
C6_Witness ==
    /\ pc = "built"
    /\ target # NoTarget
    /\ \E p \in DOMAIN nodes :
         \E raw \in {r[2] : r \in {x \in resolve : x[1] = p}} :
             \E d1, d2 \in EntriesFor(p, raw) :
                 /\ d1.platform # NoPlatform
                 /\ d1.platform \notin GetCfgs(target)
                 /\ ~ HasEdge(p, Effective(raw), d1.kind)
                 /\ HasEdge(p, Effective(raw), d2.kind)

\* C7: once a package lookup has failed, for a root or for an identity found
\* during the traversal, build_graph has ended with the error: the build does
\* not go on past the identity and no graph reaches the caller, so no query runs
C7_LookupFailureIsFatal ==
    failed # NoPkg => pc = "error" /\ call = NoCall /\ rpc = "idle"

\* the lookup failed for an identity found during the traversal, which is no
\* root
C7_Witness ==
    /\ failed # NoPkg
    /\ \A i \in 1..Len(roots) : roots[i] # failed
    /\ DOMAIN graph_edges = {}
    /\ pc = "error"

\* C8: for an identity without a node get_dependencies_of and
\* get_reverse_dependencies_of return an empty sequence
C8_AbsentIdentityHasNoNeighbours ==
    ( /\ call.op \in {"get_dependencies_of", "get_reverse_dependencies_of"}
      /\ call.arg \notin DOMAIN nodes )
    => ret_iter = << >>

\* get_dependencies_of returned for an identity without a node, on a graph
\* that has edges
C8_Witness ==
    /\ call.op = "get_dependencies_of"
    /\ call.arg \notin DOMAIN nodes
    /\ DOMAIN graph_edges # {}
    /\ ret_iter = << >>

\* C9: an identity without a node taken from pending does not abort
\* get_recursive_dependencies_of: it is reported, counts as having no
\* dependencies, the loop goes on with what is left of pending, and the call
\* returns; the result is empty when the identity is the root itself
C9_DanglingReferenceTolerated ==
    /\ rpc \in {"idle", "run"}
    /\ (rpc = "run" /\ diag # {}) =>
           /\ diag \subseteq processed
           /\ \A x \in diag : x \notin DOMAIN nodes
           /\ rpending \cap diag = {}
    /\ (RecReturned /\ call.arg \notin DOMAIN nodes) => ret = {} /\ diag = {call.arg}

\* the call returned for a root without a node, on a graph that has edges
C9_Witness ==
    /\ RecReturned
    /\ call.arg \notin DOMAIN nodes
    /\ diag = {call.arg}
    /\ DOMAIN graph_edges # {}

\* C10: every call of get_recursive_dependencies_of returns: once its loop
\* runs, pending becomes empty and the result is handed back
C10_RecursiveDepsTerminates == (rpc = "run") ~> (rpc = "idle" /\ rpending = {})

\* a call that returned on a graph with a cycle among the identities it reached
C10_Witness ==
    /\ RecReturned
    /\ \E x \in ret : x \in ReachableFrom(x)

\* the sets `processed` can hold when the loop of get_recursive_dependencies_of
\* ends, started with rp pending and done processed, over every order in
\* which the identities can be taken from pending
RECURSIVE RecOutcomes(_, _)
RecOutcomes(rp, done) ==
    IF rp = {} THEN {done}
    ELSE UNION {IF p \in done
                THEN RecOutcomes(rp \ {p}, done)
                ELSE RecOutcomes((rp \ {p}) \cup (IF p \in DOMAIN nodes
                                                  THEN DOMAIN NeighborIds(nodes[p], Outgoing)
                                                  ELSE {}),
                                 done \cup {p}) : p \in rp}

\* C11: get_recursive_dependencies_of(root) returns the same set each time it
\* runs on a graph, and the set it returns is the one every order of taking
\* the identities from pending ends with
C11_RecursiveDepsOrderIndependent ==
    RecReturned =>
        {done \ {call.arg} : done \in RecOutcomes({call.arg}, {})} = {ret}

\* a call that returned after pending held two identities at once, one of
\* them leading back to an identity already processed
C11_Witness ==
    /\ RecReturned
    /\ Cardinality(DOMAIN GetDependenciesOf(call.arg)) >= 2
    /\ \E d \in DOMAIN GetDependenciesOf(call.arg) :
         DOMAIN GetDependenciesOf(d) \cap ({call.arg} \cup ret) # {}

\* build_graph is under way
BuildRunning == pc \in {"seed", "loop", "deps"}

\* what is left for build_graph to do: the roots to seed, the identities
\* without a node, the entries on the work stack, the resolved dependencies of
\* the current package to visit
Measure ==
    <<Len(roots) + 1 - seed, Cardinality(PkgIds \ DOMAIN nodes), Len(pending),
      Cardinality(todo)>>

\* a comes before b in the lexicographic order of tuples of naturals
LexLess(a, b) ==
    \E i \in 1..Len(a) : a[i] < b[i] /\ \A j \in 1..(i - 1) : a[j] = b[j]

\* C12: build_graph terminates, also on a resolution with cycles among the
\* identities: a build under way always has a next step, every step that
\* leaves it under way brings it nearer its end (fewer roots to seed, else
\* fewer identities without a node, else a shorter work stack, else fewer
\* resolved dependencies to visit), and it ends with the work stack empty or
\* with the error of a failed lookup
C12_BuildGraphTerminates ==
    /\ [](BuildRunning => ENABLED BuildStep)
    /\ [][BuildRunning =>
             IF BuildRunning'
             THEN LexLess(Measure', Measure)
             ELSE (pc' = "built" /\ pending' = <<>>) \/ pc' = "error"]_vars

\* a build that ended with the work stack empty on a graph with a cycle
C12_Witness ==
    /\ pc = "built"
    /\ pending = <<>>
    /\ \E x \in DOMAIN nodes : x \in ReachableFrom(x)

\* C13: the identity -> index mapping and the node storage are in one-to-one
\* correspondence, in every state of build_graph and in the graph it returns,
\* whatever sequence of roots it is given: each mapped identity points to a
\* node holding that identity, and every node is the target of exactly one
\* mapping entry
C13_IndexInvariant ==
    /\ \A id \in DOMAIN nodes :
         /\ nodes[id] \in 1..Len(graph_nodes)
         /\ graph_nodes[nodes[id]] = id
    /\ \A i \in 1..Len(graph_nodes) :
         Cardinality({id \in DOMAIN nodes : nodes[id] = i}) = 1

\* C14 as stated: no edge of the graph has the same node as source and target
C14_NoSelfLoop ==
    \A e \in DOMAIN graph_edges : e.source # e.target

\* C14, amended: a built graph has an edge from a node to itself exactly for
\* the packages p whose resolved dependencies hold a raw identity that stands
\* for p itself (p, or an identity replaced by p) with an admitted declared
\* entry; a resolution without such a pair gives a graph without self-loops
C14_SelfLoopOnlyFromResolution ==
    pc = "built" =>
        \A p \in DOMAIN nodes :
            (\E e \in DOMAIN graph_edges : e.source = nodes[p] /\ e.target = nodes[p])
            <=> \E raw \in {r[2] : r \in {x \in resolve : x[1] = p}} :
                    /\ Effective(raw) = p
                    /\ \E d \in EntriesFor(p, raw) : SpecAdmits(d)

\* a built graph with an edge from a node to itself that comes from a
\* replaced raw dependency
C14_Witness ==
    /\ pc = "built"
    /\ \E e \in DOMAIN graph_edges :
         /\ e.source = e.target
         /\ <<graph_nodes[e.source], graph_nodes[e.source]>> \notin resolve

\* C15: the graph is a subset of the resolution: while build_graph runs and
\* when it has returned, every edge p -> d comes from a raw identity among the
\* resolved dependencies of p whose effective identity is d
C15_EdgesAreResolved ==
    pc # "done" =>
        \A e \in DOMAIN graph_edges :
            \E r \in resolve :
                /\ r[1] = graph_nodes[e.source]
                /\ Effective(r[2]) = graph_nodes[e.target]

\* a built graph with an edge to a replacement, and a resolved dependency
\* that gave no edge
C15_Witness ==
    /\ pc = "built"
    /\ \E e \in DOMAIN graph_edges :
         <<graph_nodes[e.source], graph_nodes[e.target]>> \notin resolve
    /\ \E r \in resolve :
         r[1] \in DOMAIN nodes /\ <<r[1], Effective(r[2])>> \notin EdgeIds

\* the identities of the roots
RootIds == {roots[i] : i \in 1..Len(roots)}

\* C16: every node of a built graph holds a root or has an incoming edge, and
\* its identity is a root or the end of a path of edges from a root; a
\* resolved dependency of a node for which no declared entry is admitted has
\* a node only if it is a root or an admitted entry of some resolved
\* dependency standing for the same identity gave an edge to it
C16_NodesReachableFromRoots ==
    pc = "built" =>
        /\ \A i \in 1..Len(graph_nodes) :
             /\ \/ graph_nodes[i] \in RootIds
                \/ \E e \in DOMAIN graph_edges : e.target = i
             /\ \/ graph_nodes[i] \in RootIds
                \/ \E root \in RootIds : graph_nodes[i] \in ReachableFrom(root)
        /\ \A r \in resolve :
             ( /\ r[1] \in DOMAIN nodes
               /\ ~ \E d \in EntriesFor(r[1], r[2]) : SpecAdmits(d)
               /\ Effective(r[2]) \in DOMAIN nodes )
             => \/ Effective(r[2]) \in RootIds
                \/ \E q \in resolve :
                     /\ q # r
                     /\ q[1] \in DOMAIN nodes
                     /\ Effective(q[2]) = Effective(r[2])
                     /\ \E d \in EntriesFor(q[1], q[2]) : SpecAdmits(d)

\* a built graph with a node that is no root, and a resolved dependency of a
\* node that was not materialized for want of an admitted entry
C16_Witness ==
    /\ pc = "built"
    /\ \E i \in 1..Len(graph_nodes) : graph_nodes[i] \notin RootIds
    /\ \E r \in resolve :
         /\ r[1] \in DOMAIN nodes
         /\ ~ \E d \in EntriesFor(r[1], r[2]) : SpecAdmits(d)
         /\ Effective(r[2]) \notin DOMAIN nodes

\* the edges of the graph between identities, as a bag of [source, target, weight]
IdEdge(e) ==
    [source |-> graph_nodes[e.source], target |-> graph_nodes[e.target], weight |-> e.weight]

IdEdges ==
    [x \in {IdEdge(e) : e \in DOMAIN graph_edges} |->
        SumOver(graph_edges, {e \in DOMAIN graph_edges : IdEdge(e) = x})]

\* the sequence s without its i-th element
RemoveAt(s, i) == SubSeq(s, 1, i - 1) \o SubSeq(s, i + 1, Len(s))

\* the <<work, ids, edges>> that visiting the resolved dependencies rest of p
\* can end with, over every order of visiting them: work is the work stack,
\* ids the identities with a node, edges the bag of edges between identities
RECURSIVE VisitOutcomes(_, _, _, _, _)
VisitOutcomes(p, rest, work, ids, edges) ==
    IF rest = {} THEN {<<work, ids, edges>>}
    ELSE UNION {LET it == {d \in EntriesFor(p, raw) : SpecAdmits(d)}
                    d_id == Effective(raw)
                IN  IF it = {}
                    THEN VisitOutcomes(p, rest \ {raw}, work, ids, edges)
                    ELSE VisitOutcomes(p, rest \ {raw},
                                       IF d_id \in ids THEN work ELSE Append(work, d_id),
                                       ids \cup {d_id},
                                       AddEdges(edges, p, d_id, it))
                : raw \in rest}

\* the <<ids, edges>> a build can end with from the work stack work, over
\* every order of taking the entries of the work stack and of visiting the
\* resolved dependencies of each
RECURSIVE BuildOutcomes(_, _, _)
BuildOutcomes(work, ids, edges) ==
    IF work = <<>> THEN {<<ids, edges>>}
    ELSE UNION {UNION {BuildOutcomes(x[1], x[2], x[3]) :
                         x \in VisitOutcomes(work[i],
                                             {r[2] : r \in {y \in resolve : y[1] = work[i]}},
                                             RemoveAt(work, i), ids, edges)}
                : i \in 1..Len(work)}

\* C17: for given roots, resolution, declared dependencies and target the
\* graph build_graph returns, as its set of identities and its bag of
\* kind-labelled edges between identities, is the one graph every order of
\* taking the work-stack entries and of visiting the resolved dependencies of
\* a package ends with
C17_BuildOrderIndependent ==
    pc = "built" =>
        BuildOutcomes(roots, RootIds, << >>) = {<<DOMAIN nodes, IdEdges>>}

\* a built graph of a package whose visit pushed two identities, in either
\* order, onto the work stack
C17_Witness ==
    /\ pc = "built"
    /\ \E p \in DOMAIN nodes : \E d1, d2 \in DOMAIN nodes \ RootIds :
         /\ d1 # d2
         /\ <<p, d1>> \in EdgeIds
         /\ <<p, d2>> \in EdgeIds

\* C18: the package cache lock is held when get_dependency_graph and
\* for_every_non_local_dep_crate call our_resolve and when
\* for_every_non_local_dep_crate calls source.download, and it is not held
\* while a query runs on the graph
C18_LockSurroundsResolveAndFetch ==
    /\ pc = "our_resolve" => lock
    /\ pc = "download" => lock
    /\ call # NoCall => ~ lock

PushesNewPopsUnexpanded ==
    /\ Len(pending') > Len(pending) =>
           pending'[Len(pending')] \notin DOMAIN nodes
    /\ Len(pending') < Len(pending) =>
           ~ \E e \in DOMAIN graph_edges :
               graph_nodes[e.source] = pending[Len(pending)]

\* C20: during build_graph an identity is pushed onto the work stack only
\* the first time it is discovered, when it has no node yet (so not again
\* when it is a root and a dependency of another package), and an identity
\* taken from the work stack has not been expanded before: it has no
\* outgoing edge yet, so no package's outgoing edges are added twice
C20_PushedAndExpandedOnce ==
    [][(pc \in {"seed", "loop", "deps"} /\ pc' # "error") => PushesNewPopsUnexpanded]_vars

\* the number of edges of the bag es from node i to node j, of kind k
CountEdges(es, i, j, k) ==
    LET e == [source |-> i, target |-> j, weight |-> k]
    IN  IF e \in DOMAIN es THEN es[e] ELSE 0

\* the number of edges of the graph from the node of p to the node of d
EdgesBetween(p, d) ==
    SumOver(graph_edges,
            {e \in DOMAIN graph_edges : e.source = nodes[p] /\ e.target = nodes[d]})

\* the declared entries of p that match raw and pass the platform filter
AdmittedFor(p, raw) == {d \in EntriesFor(p, raw) : SpecAdmits(d)}

\* C21 as stated: in a built graph the number of edges from a package p to the
\* effective identity of a resolved raw dependency of p is the number of
\* declared entries of p that match the raw dependency and are admitted
C21_EdgeCountPerRawDependency ==
    pc = "built" =>
        \A r \in resolve :
            (r[1] \in DOMAIN nodes /\ Effective(r[2]) \in DOMAIN nodes)
            => EdgesBetween(r[1], Effective(r[2])) = Cardinality(AdmittedFor(r[1], r[2]))

\* the visit of the raw dependency raw of pkg_id adds, for each kind, as many
\* edges from pkg_id to the effective identity of raw as pkg_id has admitted
\* entries of that kind matching raw, and no other edge
VisitAddsOneEdgePerEntry(raw) ==
    LET i == nodes[pkg_id]
        it == AdmittedFor(pkg_id, raw)
    IN  /\ it # {} => Effective(raw) \in DOMAIN nodes'
        /\ \A e \in DOMAIN graph_edges' :
             CountEdges(graph_edges', e.source, e.target, e.weight)
               = CountEdges(graph_edges, e.source, e.target, e.weight)
                   + (IF /\ it # {}
                         /\ e.source = i
                         /\ e.target = nodes'[Effective(raw)]
                      THEN Cardinality({d \in it : d.kind = e.weight})
                      ELSE 0)
        /\ \A k \in {d.kind : d \in it} :
             [source |-> i, target |-> nodes'[Effective(raw)], weight |-> k]
                 \in DOMAIN graph_edges'

\* C21, amended: each visit of a resolved raw dependency during an expansion
\* of p adds one edge per admitted matching entry of p, of the kind of the
\* entry, from p to the effective identity of the raw dependency; equal
\* edges are not collapsed
C21_OneEdgePerEntryPerVisit ==
    [][(pc = "deps" /\ pc' # "error") =>
          \A raw \in todo \ todo' : VisitAddsOneEdgePerEntry(raw)]_vars

\* a built graph with two equal edges, from two admitted entries of one kind
C21_Witness ==
    /\ pc = "built"
    /\ \E e \in DOMAIN graph_edges :
         /\ graph_edges[e] >= 2
         /\ \E r \in resolve :
              /\ r[1] = graph_nodes[e.source]
              /\ Effective(r[2]) = graph_nodes[e.target]
              /\ Cardinality({d \in AdmittedFor(r[1], r[2]) : d.kind = e.weight}) = graph_edges[e]

\* the visit of the replaced raw dependency raw of pkg_id, with an admitted
\* entry: the edges it adds end at the replacement r, r is the identity that
\* gets a node and is pushed if it had none, and raw gets no node
VisitFollowsReplacement(raw, r) ==
    /\ r \in DOMAIN nodes'
    /\ \A e \in DOMAIN graph_edges' :
         CountEdges(graph_edges', e.source, e.target, e.weight)
             > CountEdges(graph_edges, e.source, e.target, e.weight)
         => /\ e.source = nodes[pkg_id]
            /\ graph_nodes'[e.target] = r
            /\ \E d \in AdmittedFor(pkg_id, raw) : d.kind = e.weight
    /\ \A d \in AdmittedFor(pkg_id, raw) :
         CountEdges(graph_edges', nodes[pkg_id], nodes'[r], d.kind)
             > CountEdges(graph_edges, nodes[pkg_id], nodes'[r], d.kind)
    /\ IF r \in DOMAIN nodes
       THEN nodes' = nodes /\ pending' = pending
       ELSE /\ DOMAIN nodes' = DOMAIN nodes \cup {r}
            /\ graph_nodes' = Append(graph_nodes, r)
            /\ pending' = Append(pending, r)
    /\ raw \notin DOMAIN nodes => raw \notin DOMAIN nodes'

\* C22: when a resolved raw dependency of p has a registered replacement r,
\* the edges of its visit go from p to r, with the kinds of the admitted
\* entries of p that match the raw dependency; r is the identity materialized
\* and pushed, and the raw identity is not materialized by the visit
C22_ReplacementIsFollowed ==
    [][(pc = "deps" /\ pc' # "error") =>
          \A raw \in todo \ todo' :
              (Replacement(raw) # NoPkg /\ AdmittedFor(pkg_id, raw) # {})
              => VisitFollowsReplacement(raw, Replacement(raw))]_vars

\* a built graph with an edge to a replacement whose raw identity has no node
C22_Witness ==
    /\ pc = "built"
    /\ \E r \in resolve :
         /\ Replacement(r[2]) # NoPkg
         /\ r[2] \notin DOMAIN nodes
         /\ Replacement(r[2]) \notin RootIds
         /\ <<r[1], Replacement(r[2])>> \in EdgeIds

\* the number of nodes of the graph that hold the identity d
NodesHolding(d) == Cardinality({i \in 1..Len(graph_nodes) : graph_nodes[i] = d})

\* C23 as stated: after a successful build the effective identity of every
\* resolved dependency of every expanded package is a node of the graph
C23_EveryResolvedDependencyIsANode ==
    pc = "built" =>
        \A r \in resolve :
            r[1] \in DOMAIN nodes => Effective(r[2]) \in DOMAIN nodes

\* C23, amended: after a successful build the effective identity of every
\* resolved dependency of an expanded package for which the package has an
\* admitted declared entry is a node of the graph, and the node is reused:
\* an identity that is no root is held by one node, however many
\* dependencies lead to it (a root by one node per time it is given)
C23_AdmittedDependencyIsOneNode ==
    pc = "built" =>
        \A r \in resolve :
            (r[1] \in DOMAIN nodes /\ AdmittedFor(r[1], r[2]) # {})
            => /\ Effective(r[2]) \in DOMAIN nodes
               /\ NodesHolding(Effective(r[2])) =
                    IF Effective(r[2]) \in RootIds
                    THEN Cardinality({i \in 1..Len(roots) : roots[i] = Effective(r[2])})
                    ELSE 1

\* a built graph with a node, no root, that two admitted dependencies lead to
C23_Witness ==
    /\ pc = "built"
    /\ \E r1, r2 \in resolve :
         /\ r1 # r2
         /\ r1[1] \in DOMAIN nodes
         /\ r2[1] \in DOMAIN nodes
         /\ Effective(r1[2]) = Effective(r2[2])
         /\ Effective(r1[2]) \notin RootIds
         /\ AdmittedFor(r1[1], r1[2]) # {}
         /\ AdmittedFor(r2[1], r2[2]) # {}

\* a round of the loop of get_recursive_dependencies_of: processed only grows;
\* identities enter pending only as the dependencies of one identity of
\* pending that enters processed in the same round; and an identity taken
\* from pending that is in processed already is dropped without more
ExpandsOnlyUnprocessed ==
    /\ processed \subseteq processed'
    /\ ~ (rpending' \subseteq rpending) =>
           \E p \in (processed' \ processed) \cap rpending :
               /\ processed' = processed \cup {p}
               /\ rpending' \ rpending \subseteq Successors({p})
    /\ First(rpending) \in processed =>
           /\ processed' = processed
           /\ rpending' = rpending \ {First(rpending)}

\* C24: in get_recursive_dependencies_of each identity has its outgoing edges
\* expanded at most once, however many paths reach it and however often it
\* is inserted into pending again: an expansion puts the identity into
\* processed, which only grows, and an identity taken from pending that is
\* in processed is skipped
C24_ExpandedAtMostOnce ==
    [][(rpc = "run" /\ rpc' = "run" /\ rpending # {}) => ExpandsOnlyUnprocessed]_vars

\* the loop is about to take from pending an identity it has processed
C24_Witness ==
    /\ rpc = "run"
    /\ rpending # {}
    /\ First(rpending) \in processed
    /\ Cardinality(processed) >= 2

\* C25: every identity on the work stack of build_graph, and the one just
\* popped, has an entry in the identity -> index mapping, so the lookup
\* graph.nodes[&pkg_id] at the start of an expansion never fails; an identity
\* pushed before a lookup that fails is never popped, the build has ended
C25_PoppedIdentityIsMapped ==
    /\ pc # "panic"
    /\ pc \in {"seed", "loop", "deps"} =>
           \A i \in 1..Len(pending) : pending[i] \in DOMAIN nodes
    /\ pc = "deps" => pkg_id \in DOMAIN nodes
    /\ (pc = "error" /\ failed # NoPkg) => pending = <<>>

\* the expansion of an identity that was discovered as a dependency
C25_Witness ==
    /\ pc = "deps"
    /\ pkg_id \notin RootIds
    /\ pkg_id \in DOMAIN nodes
    /\ graph_nodes[nodes[pkg_id]] = pkg_id
====
